---- MODULE Spec2Model ----
(***************************************************************************)
(* Model of pyasn/utils/convert.py: the command line front end that        *)
(* converts MRT/RIB archives to IPASN databases (single file, screen dump, *)
(* bulk date range, version).                                              *)
(*                                                                         *)
(* Strings the code formats, parses or matches (dates, file names, glob    *)
(* patterns) are sequences of one-character strings, so that strptime,     *)
(* the % formatting and the glob match are computed as the code computes   *)
(* them.  Messages that are only printed are plain strings.                *)
(***************************************************************************)
EXTENDS Integers, Sequences, FiniteSets, TLC

(***************************************************************************)
(* Bounds of the model.                                                    *)
(***************************************************************************)
\* most archives present in the working directory
MaxFiles == 3
\* most records in the archive given to --single
MaxRecords == 2
\* longest bulk range explored, in days after the start date
MaxSpan == 2

(***************************************************************************)
(* Characters and decimal numbers.                                         *)
(***************************************************************************)
Digits == <<"0", "1", "2", "3", "4", "5", "6", "7", "8", "9">>

IsDigit(c) == \E i \in 1..10 : Digits[i] = c

DigitVal(c) == (CHOOSE i \in 1..10 : Digits[i] = c) - 1

\* "%d" % n, for n >= 0
RECURSIVE FmtD(_)
FmtD(n) == IF n < 10 THEN <<Digits[n + 1]>>
           ELSE FmtD(n \div 10) \o <<Digits[(n % 10) + 1]>>

RECURSIVE PadLeft(_, _, _)
PadLeft(s, width, c) == IF Len(s) >= width THEN s
                        ELSE PadLeft(<<c>> \o s, width, c)

\* "%4d" % n: padded with blanks to four columns
Fmt4d(n) == PadLeft(FmtD(n), 4, " ")

\* "%02d" % n: padded with zeros to two columns
Fmt02d(n) == PadLeft(FmtD(n), 2, "0")

(***************************************************************************)
(* datetime.date: the proleptic Gregorian calendar, years 1..9999.         *)
(***************************************************************************)
IsLeap(y) == (y % 4 = 0) /\ ((y % 100 # 0) \/ (y % 400 = 0))

DaysInMonth(y, m) == IF m = 2 THEN (IF IsLeap(y) THEN 29 ELSE 28)
                     ELSE IF m \in {4, 6, 9, 11} THEN 30 ELSE 31

\* date(y, m, d) raises ValueError outside these ranges
ValidDate(y, m, d) == /\ y \in 1..9999
                      /\ m \in 1..12
                      /\ d \in 1..DaysInMonth(y, m)

Date(y, m, d) == [year |-> y, month |-> m, day |-> d]

\* what a date-valued call yields when it raises instead of returning; also
\* the value of a date variable that is not bound yet
NoDate == Date(0, 0, 0)

\* dt <= dt_end on dates
DateLE(a, b) == \/ a.year < b.year
                \/ a.year = b.year /\ a.month < b.month
                \/ a.year = b.year /\ a.month = b.month /\ a.day <= b.day

\* dt + timedelta(1); NoDate where it raises OverflowError (past date.max,
\* 9999-12-31)
AddDay(dt) ==
    IF dt.day < DaysInMonth(dt.year, dt.month)
    THEN Date(dt.year, dt.month, dt.day + 1)
    ELSE IF dt.month < 12 THEN Date(dt.year, dt.month + 1, 1)
    ELSE IF dt.year < 9999 THEN Date(dt.year + 1, 1, 1)
    ELSE NoDate

(***************************************************************************)
(* datetime.strptime(s, '%Y-%m-%d').date().  The format compiles to the    *)
(* regular expression                                                      *)
(*   (\d\d\d\d)-(1[0-2]|0[1-9]|[1-9])-(3[01]|[12]\d|0[1-9]|[1-9]| [1-9])   *)
(* which must match the whole string; the fields must then make a date.    *)
(* The result is a date, or NoDate where strptime raises ValueError.       *)
(***************************************************************************)
NonZero(c) == IsDigit(c) /\ c # "0"

MonthToken(t) ==
    \/ Len(t) = 2 /\ t[1] = "1" /\ t[2] \in {"0", "1", "2"}
    \/ Len(t) = 2 /\ t[1] = "0" /\ NonZero(t[2])
    \/ Len(t) = 1 /\ NonZero(t[1])

DayToken(t) ==
    \/ Len(t) = 2 /\ t[1] = "3" /\ t[2] \in {"0", "1"}
    \/ Len(t) = 2 /\ t[1] \in {"1", "2"} /\ IsDigit(t[2])
    \/ Len(t) = 2 /\ t[1] = "0" /\ NonZero(t[2])
    \/ Len(t) = 1 /\ NonZero(t[1])
    \/ Len(t) = 2 /\ t[1] = " " /\ NonZero(t[2])

\* int() of a matched token (int(" 5") = 5)
RECURSIVE TokenVal(_)
TokenVal(t) == IF t = <<>> THEN 0
               ELSE 10 * TokenVal(SubSeq(t, 1, Len(t) - 1))
                    + (IF t[Len(t)] = " " THEN 0 ELSE DigitVal(t[Len(t)]))

strptime(s) ==
    LET n == Len(s)
        \* the month token ends at the second dash
        mEnd == IF n >= 7 /\ s[7] = "-" THEN 6
                ELSE IF n >= 8 /\ s[8] = "-" THEN 7 ELSE 0
        yTok == SubSeq(s, 1, 4)
        mTok == SubSeq(s, 6, mEnd)
        dTok == SubSeq(s, mEnd + 2, n)
    IN  IF /\ n >= 8
           /\ \A i \in 1..4 : IsDigit(s[i])
           /\ s[5] = "-"
           /\ mEnd # 0
           /\ MonthToken(mTok)
           /\ DayToken(dTok)
           /\ ValidDate(TokenVal(yTok), TokenVal(mTok), TokenVal(dTok))
        THEN Date(TokenVal(yTok), TokenVal(mTok), TokenVal(dTok))
        ELSE NoDate

(***************************************************************************)
(* File names and the glob match.                                          *)
(***************************************************************************)
\* "rib.%4d%02d%02d.????.bz2" % (dt.year, dt.month, dt.day)
RibPattern(dt) ==
    <<"r", "i", "b", ".">> \o Fmt4d(dt.year) \o Fmt02d(dt.month)
        \o Fmt02d(dt.day) \o <<".", "?", "?", "?", "?", ".", "b", "z", "2">>

\* "ipasn_%d%02d%02d.dat" % (dt.year, dt.month, dt.day)
OutFileName(dt) ==
    <<"i", "p", "a", "s", "n", "_">> \o FmtD(dt.year) \o Fmt02d(dt.month)
        \o Fmt02d(dt.day) \o <<".", "d", "a", "t">>

\* fnmatch of a name against a pattern whose only wildcard is "?"
FnMatch(name, pat) ==
    /\ Len(name) = Len(pat)
    /\ \A i \in 1..Len(pat) : pat[i] = "?" \/ pat[i] = name[i]

\* every order in which a set can be listed
RECURSIVE Listings(_)
Listings(S) == IF S = {} THEN {<<>>}
               ELSE UNION {{<<x>> \o l : l \in Listings(S \ {x})} : x \in S}

\* glob(pattern): the matching names of the directory, in the order the
\* directory listing happens to return them (glob does not sort)
Glob(directory, pat) == Listings({f \in directory : FnMatch(f, pat)})

\* dump_file[4:-4]
Slice4(name) == SubSeq(name, 5, Len(name) - 4)

(***************************************************************************)
(* The collaborators in pyasn.mrtx.  An archive is a sequence of records;  *)
(* a record that cannot be decoded has an empty prefix.                    *)
(***************************************************************************)
V4Record == [prefix |-> <<"1", ".", "0", ".", "0", ".", "0", "/", "8">>,
             origin |-> 64500]

V6Record == [prefix |-> <<"2", "0", "0", "1", ":", ":", "/", "3", "2">>,
             origin |-> 64501]

BadRecord == [prefix |-> <<>>, origin |-> 0]

Records == {V4Record, V6Record, BadRecord}

Malformed(r) == r.prefix = <<>>

\* the indices of the records a successful decoding keeps
Decoded(content) == {i \in 1..Len(content) : ~Malformed(content[i])}

\* mrtx.parse_mrt_file(path, skip_record_on_error=skip): raises on the first
\* malformed record unless skip is set; otherwise the table prefix -> origin
\* of the records decoded (the last record of a prefix wins)
ParseRaises(content, skip) ==
    ~skip /\ \E i \in 1..Len(content) : Malformed(content[i])

ParseMrtFile(content) ==
    [p \in {content[i].prefix : i \in Decoded(content)} |->
        LET last == CHOOSE i \in Decoded(content) :
                        /\ content[i].prefix = p
                        /\ \A j \in Decoded(content) :
                               content[j].prefix = p => j <= i
        IN  content[last].origin]

\* ':' in x
HasColon(x) == \E i \in 1..Len(x) : x[i] = ":"

\* sum(1 for x in prefixes if ':' in x)
CountV6(prefixes) == Cardinality({x \in DOMAIN prefixes : HasColon(x)})

(***************************************************************************)
(* The inputs explored: command lines and working directories.             *)
(***************************************************************************)
Modes == {"single", "dump_screen", "bulk", "version"}

SingleRib == <<"i", "n", ".", "b", "z", "2">>

SingleOut == <<"o", "u", "t", ".", "d", "a", "t">>

GzSuffix == <<".", "g", "z">>

Arg20200228 == <<"2", "0", "2", "0", "-", "0", "2", "-", "2", "8">>

Arg20200229 == <<"2", "0", "2", "0", "-", "2", "-", "2", "9">>

Arg20200301 == <<"2", "0", "2", "0", "-", "0", "3", "-", "0", "1">>

Arg20200302 == <<"2", "0", "2", "0", "-", "0", "3", "-", "0", "2">>

Arg99991231 == <<"9", "9", "9", "9", "-", "1", "2", "-", "3", "1">>

Arg09991231 == <<"0", "9", "9", "9", "-", "1", "2", "-", "3", "1">>

Arg20210229 == <<"2", "0", "2", "1", "-", "0", "2", "-", "2", "9">>

ArgNotADate == <<"n", "o", "t", "-", "a", "-", "d", "a", "t", "e">>

DateArgs == {Arg20200228, Arg20200229, Arg20200301, Arg20200302,
             Arg99991231, Arg09991231, Arg20210229, ArgNotADate}

\* rib.<8 characters>.<4 characters>.bz2
RibName(day, hhmm) ==
    <<"r", "i", "b", ".">> \o day \o <<".">> \o hhmm
        \o <<".", "b", "z", "2">>

H0000 == <<"0", "0", "0", "0">>

H1200 == <<"1", "2", "0", "0">>

AllRibs ==
    { RibName(<<"2", "0", "2", "0", "0", "2", "2", "8">>, H0000),
      RibName(<<"2", "0", "2", "0", "0", "2", "2", "8">>, H1200),
      RibName(<<"2", "0", "2", "0", "0", "2", "2", "9">>, H0000),
      RibName(<<"2", "0", "2", "0", "0", "3", "0", "1">>, H0000),
      RibName(<<"2", "0", "2", "0", "0", "3", "0", "2">>, H0000),
      RibName(<<"9", "9", "9", "9", "1", "2", "3", "1">>, H0000),
      RibName(<<"0", "9", "9", "9", "1", "2", "3", "1">>, H0000) }

\* the archives of the bulk directory: decodable, or with a malformed record
BulkContents == {<<V4Record>>, <<V4Record, BadRecord>>}

RECURSIVE SeqsUpTo(_, _)
SeqsUpTo(S, n) == IF n = 0 THEN {<<>>}
                  ELSE SeqsUpTo(S, n - 1) \cup
                       {Append(q, x) : q \in SeqsUpTo(S, n - 1), x \in S}

\* b is at most k days after a
RECURSIVE Within(_, _, _)
Within(a, b, k) == \/ a = b
                   \/ /\ k > 0
                      /\ a # NoDate
                      /\ AddDay(a) # NoDate
                      /\ Within(AddDay(a), b, k - 1)

\* a bulk argument pair whose loop is within the bounds of the model: a date
\* that does not parse, an empty range, or a range of at most MaxSpan + 1 days
BulkArgs ==
    {b \in DateArgs \X DateArgs :
        \/ strptime(b[1]) = NoDate
        \/ strptime(b[2]) = NoDate
        \/ ~DateLE(strptime(b[1]), strptime(b[2]))
        \/ Within(strptime(b[1]), strptime(b[2]), MaxSpan)}

Directories ==
    UNION {[d -> BulkContents] : d \in {x \in SUBSET AllRibs :
                                             Cardinality(x) <= MaxFiles}}

\* what the options default to when the command line does not vary them
DefaultArgv(sel) ==
    [sel |-> sel, single |-> <<SingleRib, SingleOut>>,
     dump_screen |-> <<SingleRib>>, bulk |-> <<Arg20200228, Arg20200228>>,
     compress |-> FALSE, no_progress |-> FALSE, skip_on_error |-> FALSE,
     record_from |-> 0, record_to |-> 0]

DefaultFs ==
    (SingleRib :> <<V4Record>>)
        @@ (RibName(<<"2", "0", "2", "0", "0", "2", "2", "8">>, H0000)
                :> <<V4Record>>)

(***************************************************************************)
(* The state: the command line, the working directory, the driver's local  *)
(* variables and position, and what it has called and printed so far.      *)
(***************************************************************************)
VARIABLES
    argv,       \* the command line: the selectors given and the option values
    fs,         \* the archives of the working directory: name -> records
    args,       \* vars(parser.parse_args()), the keyword arguments of main
    pc,         \* where the driver is
    prefixes,   \* main: the table parsed by --single
    dt,         \* main: the current day of the bulk loop
    dt_end,     \* main: the last day of the bulk loop
    dump_file,  \* main: the archive chosen for the current day
    dat,        \* main: the table parsed for the current day
    out,        \* the files written: name -> [table, src]
    log,        \* the calls made and the lines printed, in order
    err         \* the exception that ended the run, if any

vars == <<argv, fs, args, pc, prefixes, dt, dt_end, dump_file, dat, out,
          log, err>>

\* one call of a collaborator, or one line printed
Ev(op, name, src, date, n) ==
    [op |-> op, name |-> name, src |-> src, date |-> date, n |-> n]

MalformedDate == "ValueError: ERROR: malformed date, try YYYY-MM-DD"

\* the group without its exclusion: only an empty selection is rejected
UsageError_NotExclusive(av) == av.sel = {}

\* argparse: the mutually exclusive group of --single, --dump-screen, --bulk
\* and --version, required=True; parser.error() exits with status 2
UsageError(av) == Cardinality(av.sel) # 1

\* the namespace parse_args returns; a selector that was not given is None,
\* modelled as the empty tuple (both are false in an if)
Namespace(av) ==
    [single |-> IF "single" \in av.sel THEN av.single ELSE <<>>,
     dump_screen |-> IF "dump_screen" \in av.sel THEN av.dump_screen ELSE <<>>,
     bulk |-> IF "bulk" \in av.sel THEN av.bulk ELSE <<>>,
     version |-> "version" \in av.sel,
     compress |-> av.compress, no_progress |-> av.no_progress,
     skip_on_error |-> av.skip_on_error,
     record_from |-> av.record_from, record_to |-> av.record_to]

\* mrtx.dump_prefixes_to_file(table, name, src)
WriteFile(o, name, table, src) ==
    [f \in DOMAIN o \cup {name} |->
        IF f = name THEN [table |-> table, src |-> src] ELSE o[f]]

\* call(['gzip', name]) returning rc: on success name is replaced by name.gz,
\* on failure it is left as it is
Gzip(o, name, rc) ==
    IF rc # 0 THEN o
    ELSE [f \in (DOMAIN o \ {name}) \cup {name \o GzSuffix} |->
            IF f = name \o GzSuffix THEN o[name] ELSE o[f]]

Init ==
    /\ \E sel \in SUBSET Modes :
          \/ /\ sel = {"single"}
             /\ \E c, np, sk \in BOOLEAN :
                   argv = [DefaultArgv(sel) EXCEPT !.compress = c,
                               !.no_progress = np, !.skip_on_error = sk]
             /\ \E content \in SeqsUpTo(Records, MaxRecords) :
                   fs = (SingleRib :> content)
          \/ /\ sel = {"dump_screen"}
             /\ \E rf, rt \in 0..MaxRecords :
                   argv = [DefaultArgv(sel) EXCEPT !.record_from = rf,
                               !.record_to = rt]
             /\ fs = DefaultFs
          \/ /\ sel = {"bulk"}
             /\ \E b \in BulkArgs, c \in BOOLEAN :
                   argv = [DefaultArgv(sel) EXCEPT !.bulk = b, !.compress = c]
             /\ fs \in Directories
          \/ /\ sel = {"version"}
             /\ \E c \in BOOLEAN :
                   argv = [DefaultArgv(sel) EXCEPT !.compress = c]
             /\ fs = DefaultFs
          \/ /\ Cardinality(sel) # 1
             /\ argv = DefaultArgv(sel)
             /\ fs = DefaultFs
    /\ args = Namespace(DefaultArgv({}))
    /\ pc = "climain"
    /\ prefixes = <<>>
    /\ dt = NoDate
    /\ dt_end = NoDate
    /\ dump_file = <<>>
    /\ dat = <<>>
    /\ out = <<>>
    /\ log = <<>>
    /\ err = ""

\* climain: parse the command line and call main
Climain ==
    /\ pc = "climain"
    /\ IF UsageError(argv)
       THEN /\ pc' = "raised"
            /\ err' = "SystemExit: 2"
            /\ args' = args
       ELSE /\ pc' = "version"
            /\ err' = err
            /\ args' = Namespace(argv)
    /\ UNCHANGED <<argv, fs, prefixes, dt, dt_end, dump_file, dat, out, log>>

\* main: if version
MainVersion ==
    /\ pc = "version"
    /\ log' = IF args.version
              THEN Append(log, Ev("print_version", <<>>, <<>>, NoDate, <<0, 0>>))
              ELSE log
    /\ pc' = "single"
    /\ UNCHANGED <<argv, fs, args, prefixes, dt, dt_end, dump_file, dat, out,
                   err>>

\* the parser's exception caught and the run carried on with an empty table
MainSingle_CatchesParseError ==
    /\ pc = "single"
    /\ IF args.single = <<>>
       THEN /\ pc' = "dump_screen"
            /\ UNCHANGED <<log, prefixes>>
       ELSE /\ log' = Append(log, Ev("parse", args.single[1], <<>>, NoDate,
                                     <<IF args.skip_on_error THEN 1 ELSE 0,
                                       IF args.no_progress THEN 0 ELSE 1>>))
            /\ pc' = "single_write"
            /\ prefixes' =
                  IF ParseRaises(fs[args.single[1]], args.skip_on_error)
                  THEN <<>>
                  ELSE ParseMrtFile(fs[args.single[1]])
    /\ UNCHANGED <<argv, fs, args, dt, dt_end, dump_file, dat, out, err>>

\* main: if single, the call of the parser
MainSingle ==
    /\ pc = "single"
    /\ IF args.single = <<>>
       THEN /\ pc' = "dump_screen"
            /\ UNCHANGED <<log, prefixes, err>>
       ELSE /\ log' = Append(log, Ev("parse", args.single[1], <<>>, NoDate,
                                     <<IF args.skip_on_error THEN 1 ELSE 0,
                                       IF args.no_progress THEN 0 ELSE 1>>))
            /\ IF ParseRaises(fs[args.single[1]], args.skip_on_error)
               THEN /\ pc' = "raised"
                    /\ err' = "ParseError"
                    /\ prefixes' = prefixes
               ELSE /\ pc' = "single_write"
                    /\ err' = err
                    /\ prefixes' = ParseMrtFile(fs[args.single[1]])
    /\ UNCHANGED <<argv, fs, args, dt, dt_end, dump_file, dat, out>>

\* main: --single, the call of the writer and the summary line
SingleWrite ==
    /\ pc = "single_write"
    /\ out' = WriteFile(out, args.single[2], prefixes, args.single[1])
    /\ log' = LET written == Append(log, Ev("write", args.single[2],
                                 args.single[1], NoDate,
                                 <<Cardinality(DOMAIN prefixes), 0>>))
                  v6 == CountV6(prefixes)
                  v4 == Cardinality(DOMAIN prefixes) - v6
              IN  IF args.no_progress THEN written
                  ELSE Append(written, Ev("print_saved", <<>>, <<>>, NoDate,
                                          <<v4, v6>>))
    /\ pc' = IF args.compress THEN "single_gzip" ELSE "dump_screen"
    /\ UNCHANGED <<argv, fs, args, prefixes, dt, dt_end, dump_file, dat, err>>

\* main: --single --compress, the call of gzip; its return code is dropped
SingleGzip ==
    /\ pc = "single_gzip"
    /\ \E rc \in {0, 1} :
          /\ log' = Append(log, Ev("gzip", args.single[2], <<>>, NoDate,
                                   <<rc, 0>>))
          /\ out' = Gzip(out, args.single[2], rc)
    /\ pc' = "dump_screen"
    /\ UNCHANGED <<argv, fs, args, prefixes, dt, dt_end, dump_file, dat, err>>

\* main: if dump_screen
MainDumpScreen ==
    /\ pc = "dump_screen"
    /\ log' = IF args.dump_screen = <<>> THEN log
              ELSE Append(log, Ev("dump_screen", args.dump_screen[1], <<>>,
                                  NoDate, <<args.record_from, args.record_to>>))
    /\ pc' = "bulk"
    /\ UNCHANGED <<argv, fs, args, prefixes, dt, dt_end, dump_file, dat, out,
                   err>>

\* the ValueError of strptime reported and swallowed: the run ends normally
MainBulk_SwallowsValueError ==
    /\ pc = "bulk"
    /\ IF args.bulk = <<>>
       THEN /\ pc' = "returned"
            /\ UNCHANGED <<dt, dt_end, log>>
       ELSE IF strptime(args.bulk[1]) = NoDate \/ strptime(args.bulk[2]) = NoDate
       THEN /\ pc' = "returned"
            /\ log' = Append(log, Ev("print_malformed", <<>>, <<>>, NoDate,
                                     <<0, 0>>))
            /\ UNCHANGED <<dt, dt_end>>
       ELSE /\ dt' = strptime(args.bulk[1])
            /\ dt_end' = strptime(args.bulk[2])
            /\ log' = Append(log, Ev("print_starting", <<>>, <<>>,
                                     strptime(args.bulk[1]), <<0, 0>>))
            /\ pc' = "while"
    /\ UNCHANGED <<argv, fs, args, prefixes, dump_file, dat, out, err>>

\* main: if bulk, the parsing of the two dates
MainBulk ==
    /\ pc = "bulk"
    /\ IF args.bulk = <<>>
       THEN /\ pc' = "returned"
            /\ UNCHANGED <<dt, dt_end, log, err>>
       ELSE IF strptime(args.bulk[1]) = NoDate \/ strptime(args.bulk[2]) = NoDate
       THEN /\ pc' = "raised"
            /\ err' = MalformedDate
            /\ UNCHANGED <<dt, dt_end, log>>
       ELSE /\ dt' = strptime(args.bulk[1])
            /\ dt_end' = strptime(args.bulk[2])
            /\ log' = Append(log, Ev("print_starting", <<>>, <<>>,
                                     strptime(args.bulk[1]), <<0, 0>>))
            /\ pc' = "while"
            /\ err' = err
    /\ UNCHANGED <<argv, fs, args, prefixes, dump_file, dat, out>>

\* the increment of dt forgotten at the end of an iteration
Advance_SameDay ==
    /\ pc' = "while"
    /\ err' = err
    /\ dt' = dt

\* dt += timedelta(1), at the end of an iteration of the loop
Advance ==
    IF AddDay(dt) = NoDate
    THEN /\ pc' = "raised"
         /\ err' = "OverflowError: date value out of range"
         /\ dt' = dt
    ELSE /\ pc' = "while"
         /\ err' = err
         /\ dt' = AddDay(dt)

\* main: the test of the loop, the glob and the choice of the day's archive
BulkLoop ==
    /\ pc = "while"
    /\ IF ~DateLE(dt, dt_end)
       THEN /\ log' = Append(log, Ev("print_finished", <<>>, <<>>, NoDate,
                                     <<0, 0>>))
            /\ pc' = "returned"
            /\ UNCHANGED <<dt, dump_file, err>>
       ELSE \E files \in Glob(DOMAIN fs, RibPattern(dt)) :
              LET globbed == Append(log, Ev("glob", RibPattern(dt), <<>>, dt,
                                            <<Len(files), 0>>))
                  warned == IF Len(files) > 1
                            THEN Append(globbed, Ev("warning", <<>>, <<>>, dt,
                                                    <<Len(files), 0>>))
                            ELSE globbed
              IN  IF files = <<>>
                  THEN /\ log' = globbed
                       /\ dump_file' = dump_file
                       /\ Advance
                  ELSE /\ log' = Append(warned, Ev("print_file",
                                     Slice4(files[1]), <<>>, dt, <<0, 0>>))
                       /\ dump_file' = files[1]
                       /\ pc' = "bulk_parse"
                       /\ UNCHANGED <<dt, err>>
    /\ UNCHANGED <<argv, fs, args, prefixes, dt_end, dat, out>>

\* the parser's exception caught and the loop carried on with the next day
BulkParse_SkipsDay ==
    /\ pc = "bulk_parse"
    /\ log' = Append(log, Ev("parse", dump_file, <<>>, dt, <<0, 0>>))
    /\ IF ParseRaises(fs[dump_file], FALSE)
       THEN /\ Advance
            /\ dat' = dat
       ELSE /\ pc' = "bulk_write"
            /\ err' = err
            /\ dat' = ParseMrtFile(fs[dump_file])
            /\ dt' = dt
    /\ UNCHANGED <<argv, fs, args, prefixes, dt_end, dump_file, out>>

\* main: --bulk, the call of the parser (with its default options)
BulkParse ==
    /\ pc = "bulk_parse"
    /\ log' = Append(log, Ev("parse", dump_file, <<>>, dt, <<0, 0>>))
    /\ IF ParseRaises(fs[dump_file], FALSE)
       THEN /\ pc' = "raised"
            /\ err' = "ParseError"
            /\ dat' = dat
       ELSE /\ pc' = "bulk_write"
            /\ err' = err
            /\ dat' = ParseMrtFile(fs[dump_file])
    /\ UNCHANGED <<argv, fs, args, prefixes, dt, dt_end, dump_file, out>>

\* main: --bulk, the call of the writer; without --compress the iteration
\* ends here
BulkWrite ==
    /\ pc = "bulk_write"
    /\ out' = WriteFile(out, OutFileName(dt), dat, dump_file)
    /\ log' = Append(log, Ev("write", OutFileName(dt), dump_file, dt,
                             <<Cardinality(DOMAIN dat), 0>>))
    /\ IF args.compress
       THEN /\ pc' = "bulk_gzip"
            /\ UNCHANGED <<dt, err>>
       ELSE Advance
    /\ UNCHANGED <<argv, fs, args, prefixes, dt_end, dump_file, dat>>

\* main: --bulk --compress, the call of gzip; its return code is dropped
BulkGzip ==
    /\ pc = "bulk_gzip"
    /\ \E rc \in {0, 1} :
          /\ log' = Append(log, Ev("gzip", OutFileName(dt), <<>>, dt,
                                   <<rc, 0>>))
          /\ out' = Gzip(out, OutFileName(dt), rc)
    /\ Advance
    /\ UNCHANGED <<argv, fs, args, prefixes, dt_end, dump_file, dat>>

Next ==
    \/ Climain
    \/ MainVersion
    \/ MainSingle
    \/ SingleWrite
    \/ SingleGzip
    \/ MainDumpScreen
    \/ MainBulk
    \/ BulkLoop
    \/ BulkParse
    \/ BulkWrite
    \/ BulkGzip

Spec == Init /\ [][Next]_vars

(***************************************************************************)
(* Vocabulary of the properties.                                           *)
(***************************************************************************)
Terminal == pc \in {"returned", "raised"}

BulkOnly == argv.sel = {"bulk"}

SingleOnly == argv.sel = {"single"}

StartDate == strptime(argv.bulk[1])

EndDate == strptime(argv.bulk[2])

\* a string of the form YYYY-MM-DD that names a calendar date
WellFormed(s) == Len(s) = 10 /\ s[9] # " " /\ strptime(s) # NoDate

\* the positions of the log where op was called or printed
At(op) == {i \in 1..Len(log) : log[i].op = op}

\* the calls that read or write files, or run gzip
IoOps == {"glob", "parse", "write", "gzip", "dump_screen"}

\* the days from a to b inclusive
RECURSIVE RangeDays(_, _)
RangeDays(a, b) ==
    IF ~DateLE(a, b) THEN {}
    ELSE {a} \cup (IF a = b \/ AddDay(a) = NoDate THEN {}
                   ELSE RangeDays(AddDay(a), b))

\* YYYYMMDD: eight digits
Ymd8(d) == PadLeft(FmtD(d.year), 4, "0") \o Fmt02d(d.month) \o Fmt02d(d.day)

\* the candidate archives of day d: rib.<YYYYMMDD>.????.bz2
Candidates(d) ==
    {f \in DOMAIN fs :
        FnMatch(f, RibName(Ymd8(d), <<"?", "?", "?", "?">>))}

\* ipasn_<YYYYMMDD>.dat
IpasnName(d) ==
    <<"i", "p", "a", "s", "n", "_">> \o Ymd8(d) \o <<".", "d", "a", "t">>

\* the characters of the names, in code point order
Alphabet == <<" ", ".", "0", "1", "2", "3", "4", "5", "6", "7", "8", "9",
              "?", "_", "a", "b", "d", "g", "i", "n", "o", "p", "r", "s",
              "t", "u", "z">>

Code(c) == CHOOSE i \in 1..Len(Alphabet) : Alphabet[i] = c

\* a <= b as strings
RECURSIVE LexLE(_, _)
LexLE(a, b) ==
    IF a = <<>> THEN TRUE
    ELSE IF b = <<>> THEN FALSE
    ELSE IF a[1] # b[1] THEN Code(a[1]) < Code(b[1])
    ELSE LexLE(Tail(a), Tail(b))

\* no collaborator failed: the parser did not raise and gzip returned 0
NoCollaboratorFailed ==
    /\ err # "ParseError"
    /\ \A i \in At("gzip") : log[i].n[1] = 0

(***************************************************************************)
(* C1: bulk conversion with two well-formed dates, the start later than    *)
(* the end, ends in an error; nothing is located, parsed or written and no *)
(* completion message is printed.                                          *)
(***************************************************************************)
ReversedRange ==
    /\ BulkOnly
    /\ WellFormed(argv.bulk[1])
    /\ WellFormed(argv.bulk[2])
    /\ ~DateLE(StartDate, EndDate)

\* C1, as claimed: a reversed range never returns normally, ends with an
\* error, and locates, parses, writes and announces nothing
C1_ReversedRangeFails ==
    ReversedRange =>
        /\ pc # "returned"
        /\ Terminal => err # ""
        /\ \A i \in 1..Len(log) :
               log[i].op \notin IoOps \cup {"print_finished"}

\* what the code does with a reversed range: the loop body never runs and
\* the run ends normally with the completion message
C1_ReversedRangeIsEmpty ==
    ReversedRange =>
        /\ pc # "raised"
        /\ \A i \in 1..Len(log) : log[i].op \notin IoOps
        /\ pc = "returned" => log[Len(log)].op = "print_finished"

C1_ReversedRangeReturns ==
    ReversedRange /\ pc = "returned"

(***************************************************************************)
(* C2: bulk conversion where the start or the end date does not parse as a *)
(* calendar date fails with "malformed date, try YYYY-MM-DD" before any    *)
(* processing: no glob, no parser call, no writer call, no gzip.           *)
(***************************************************************************)
\* a string that names no calendar date: 2021 has no 29 February
NotADate(s) == s \in {Arg20210229, ArgNotADate} \/ strptime(s) = NoDate

\* C2: with a date that does not parse, the run never gets past the parsing
\* of the dates, ends with the malformed-date error, and does no I/O
C2_MalformedDateIsFatal ==
    (BulkOnly /\ (NotADate(argv.bulk[1]) \/ NotADate(argv.bulk[2]))) =>
        /\ pc \in {"climain", "version", "single", "dump_screen", "bulk",
                   "raised"}
        /\ pc = "raised" => err = MalformedDate
        /\ \A i \in 1..Len(log) :
               log[i].op \notin IoOps \cup {"print_starting", "print_finished"}
        /\ out = <<>>

\* the end date is the malformed one, and the directory holds archives
C2_Witness ==
    /\ BulkOnly
    /\ StartDate # NoDate
    /\ EndDate = NoDate
    /\ Candidates(StartDate) # {}
    /\ pc = "raised"
    /\ err = MalformedDate

(***************************************************************************)
(* C3: in a bulk conversion where no collaborator fails, the outputs       *)
(* written are exactly ipasn_<YYYYMMDD>.dat for the days of the range that *)
(* have a candidate archive rib.<YYYYMMDD>.????.bz2; a day without         *)
(* candidates does not stop the later days.                                *)
(***************************************************************************)
BulkRange ==
    /\ BulkOnly
    /\ StartDate # NoDate
    /\ EndDate # NoDate
    /\ DateLE(StartDate, EndDate)

DaysWithCandidates ==
    {d \in RangeDays(StartDate, EndDate) : Candidates(d) # {}}

\* C3, as claimed: at the end of a bulk run without collaborator failures,
\* the outputs written are ipasn_<YYYYMMDD>.dat of the days with candidates
C3_OutputsAreDaysWithCandidates ==
    (BulkRange /\ Terminal /\ NoCollaboratorFailed) =>
        {log[i].name : i \in At("write")} =
            {IpasnName(d) : d \in DaysWithCandidates}

\* the same, for ranges that start in year 1000 or later
C3_OutputsFromYear1000 ==
    (BulkRange /\ Terminal /\ NoCollaboratorFailed /\ StartDate.year >= 1000) =>
        /\ {log[i].name : i \in At("write")} =
               {IpasnName(d) : d \in DaysWithCandidates}
        /\ \A d \in DaysWithCandidates :
               IpasnName(d) \in DOMAIN out
                   \/ IpasnName(d) \o GzSuffix \in DOMAIN out

\* a range whose middle day has no archive and whose last day has one
C3_MissingDaySkipped ==
    /\ BulkRange
    /\ pc = "returned"
    /\ \E d \in RangeDays(StartDate, EndDate) :
          /\ d # StartDate /\ d # EndDate
          /\ Candidates(d) = {}
    /\ Candidates(StartDate) # {}
    /\ Candidates(EndDate) # {}
    /\ IpasnName(EndDate) \in DOMAIN out

(***************************************************************************)
(* C4: when several archives match a day, a warning naming the day is      *)
(* printed and exactly one archive is parsed for it: the first in sorted   *)
(* order, whatever the order of the directory listing.                     *)
(***************************************************************************)
\* the glob of a day with several matches is followed by the warning
WarnedAt(i) ==
    log[i].n[1] > 1 =>
        /\ i < Len(log)
        /\ log[i + 1].op = "warning"
        /\ log[i + 1].date = log[i].date

\* at most one archive is parsed for the day of parse i
ParsedOnceAt(i) ==
    \A j \in At("parse") : log[j].date = log[i].date => j = i

\* C4, as claimed: several matches are warned about, one archive is parsed
\* per day, and it is the least of the matches in lexical order
C4_FirstInSortedOrder ==
    BulkOnly =>
        /\ \A i \in At("glob") : WarnedAt(i)
        /\ \A i \in At("parse") :
              /\ ParsedOnceAt(i)
              /\ \A f \in DOMAIN fs :
                    FnMatch(f, RibPattern(log[i].date)) =>
                        LexLE(log[i].name, f)

\* what the code does: it warns and parses one of the matches, the first of
\* the listing
C4_WarnsAndParsesOneMatch ==
    BulkOnly =>
        /\ \A i \in At("glob") : WarnedAt(i)
        /\ \A i \in At("parse") :
              /\ ParsedOnceAt(i)
              /\ log[i].name \in DOMAIN fs
              /\ FnMatch(log[i].name, RibPattern(log[i].date))

C4_SeveralMatches ==
    /\ BulkOnly
    /\ \E i \in At("warning") : \E j \in At("parse") :
          log[j].date = log[i].date

(***************************************************************************)
(* C5: with --compress, a failure of gzip (a return code other than 0)     *)
(* ends the run in a fatal error, reported after the output was written    *)
(* and with the output left in place; in bulk mode no later day is         *)
(* converted and no completion message is printed.                         *)
(***************************************************************************)
\* C5, as claimed: a gzip call that returned non-zero is the last thing the
\* run did, the run has ended in CompressionError, and the output is there
C5_CompressionFailureIsFatal ==
    \A i \in At("gzip") :
        log[i].n[1] # 0 =>
            /\ pc = "raised"
            /\ err = "CompressionError"
            /\ i = Len(log)
            /\ log[i].name \in DOMAIN out

\* what the code does: the output stays in place, and the run goes on
C5_FailedOutputStays ==
    \A i \in At("gzip") :
        (log[i].n[1] # 0 /\ i = Len(log)) =>
            /\ log[i].name \in DOMAIN out
            /\ pc # "raised" \/ err = "OverflowError: date value out of range"

C5_RunCompletesAfterFailure ==
    /\ BulkOnly
    /\ pc = "returned"
    /\ \E i \in At("gzip") : \E j \in At("write") :
          log[i].n[1] # 0 /\ j > i

(***************************************************************************)
(* C6: in single-file conversion without skip-on-error, a failure of the   *)
(* parser ends the run in a ParseError, and neither the writer nor gzip is *)
(* called, so there is no output file; with skip-on-error a malformed      *)
(* record does not fail the run and the table of the valid records is      *)
(* written.                                                                *)
(***************************************************************************)
HasMalformed == \E i \in 1..Len(fs[SingleRib]) : Malformed(fs[SingleRib][i])

ValidPrefixes ==
    {fs[SingleRib][i].prefix :
        i \in {j \in 1..Len(fs[SingleRib]) : ~Malformed(fs[SingleRib][j])}}

\* the output file, compressed or not
SingleOutput ==
    IF SingleOut \in DOMAIN out THEN out[SingleOut]
    ELSE out[SingleOut \o GzSuffix]

\* C6: for an archive with a malformed record, without skip-on-error the
\* run ends in ParseError before any write or gzip; with it the run does not
\* fail and the file written holds the table of the valid records
C6_ParseErrorOrPartialTable ==
    (SingleOnly /\ HasMalformed) =>
        IF ~argv.skip_on_error
        THEN /\ pc \in {"climain", "version", "single", "raised"}
             /\ pc = "raised" => err = "ParseError"
             /\ At("write") = {} /\ At("gzip") = {}
             /\ out = <<>>
        ELSE /\ pc # "raised"
             /\ pc \in {"single_gzip", "dump_screen", "bulk", "returned"} =>
                   /\ Cardinality(At("write")) = 1
                   /\ DOMAIN out \in {{SingleOut}, {SingleOut \o GzSuffix}}
                   /\ DOMAIN SingleOutput.table = ValidPrefixes

\* the parser was called on an archive with a malformed record after a valid
\* one, without skip-on-error, and the run has ended
C6_Witness ==
    /\ SingleOnly
    /\ ~argv.skip_on_error
    /\ argv.compress
    /\ fs[SingleRib] = <<V4Record, BadRecord>>
    /\ At("parse") # {}
    /\ pc = "raised"

\* with skip-on-error, the same archive gives a table of one entry
C6_SkipWitness ==
    /\ SingleOnly
    /\ argv.skip_on_error
    /\ fs[SingleRib] = <<V4Record, BadRecord>>
    /\ pc = "returned"
    /\ DOMAIN SingleOutput.table = {V4Record.prefix}

(***************************************************************************)
(* C7: an invocation runs the actions of exactly one of the four modes:    *)
(* selecting none or several is a usage error before any action, and the   *)
(* version query prints the version and does nothing else.                 *)
(***************************************************************************)
\* the mode an entry of the log belongs to
ModeOf(e) ==
    IF e.op = "print_version" THEN "version"
    ELSE IF e.op = "dump_screen" THEN "dump_screen"
    ELSE IF e.op \in {"print_saved"} THEN "single"
    ELSE IF e.op \in {"parse", "write", "gzip"}
         THEN (IF e.date = NoDate THEN "single" ELSE "bulk")
    ELSE "bulk"

\* C7: no or several selectors end in SystemExit(2) with nothing done; all
\* that is done belongs to the one selected mode; --version prints only
C7_ExactlyOneMode ==
    /\ Cardinality(argv.sel) # 1 =>
          /\ pc \in {"climain", "raised"}
          /\ pc = "raised" => err = "SystemExit: 2"
          /\ log = <<>> /\ out = <<>>
    /\ \A i \in 1..Len(log) : argv.sel = {ModeOf(log[i])}
    /\ (pc = "returned" /\ argv.sel = {"version"}) =>
          /\ log = <<Ev("print_version", <<>>, <<>>, NoDate, <<0, 0>>)>>
          /\ out = <<>>
    /\ pc = "returned" => log # <<>>

\* a version query given together with --compress has returned
C7_Witness ==
    /\ argv.sel = {"version"}
    /\ argv.compress
    /\ pc = "returned"
    /\ Len(log) = 1

\* a command line with two selectors was rejected
C7_UsageWitness ==
    /\ argv.sel = {"single", "bulk"}
    /\ pc = "raised"

(***************************************************************************)
(* C8: in bulk conversion a failure of the parser on day d aborts the      *)
(* range: nothing is written for d or a later day, no completion message   *)
(* is printed, and the outputs of the days before d stay as they were      *)
(* written (and compressed, when gzip succeeded).                          *)
(***************************************************************************)
\* the file written by write i is there, compressed or not, with its table
OutputKept(i) ==
    LET name == log[i].name
        table == ParseMrtFile(fs[log[i].src])
    IN  \/ name \in DOMAIN out /\ out[name].table = table
        \/ name \o GzSuffix \in DOMAIN out
               /\ out[name \o GzSuffix].table = table

DateLT(a, b) == DateLE(a, b) /\ a # b

\* C8: a failed parse is the last step of the run, which ends in ParseError
\* without completion message; all writes are of earlier days and kept
C8_ParseFailureAbortsRange ==
    BulkOnly =>
        \A i \in At("parse") :
            ParseRaises(fs[log[i].name], FALSE) =>
                /\ i = Len(log)
                /\ pc = "raised"
                /\ err = "ParseError"
                /\ At("print_finished") = {}
                /\ \A j \in At("write") :
                      /\ DateLT(log[j].date, log[i].date)
                      /\ OutputKept(j)
                /\ Cardinality(DOMAIN out) = Cardinality(At("write"))

\* the parser failed on a day after a day that was converted and compressed
C8_Witness ==
    /\ BulkOnly
    /\ pc = "raised"
    /\ err = "ParseError"
    /\ \E j \in At("gzip") : log[j].n[1] = 0
    /\ DateLT(dt, dt_end)

(***************************************************************************)
(* C9: bulk conversion takes the days in increasing order, one at a time,  *)
(* and within a day locates, parses, writes and then (if asked) compresses:*)
(* the parse of a day is complete before its output is written, the write  *)
(* and the compression of a day are complete before any step of a later    *)
(* day, and no day is processed twice.                                     *)
(***************************************************************************)
DayOps == {"glob", "warning", "print_file", "parse", "write", "gzip"}

\* the place of a step within its day
StepRank(op) ==
    CASE op = "glob" -> 1
      [] op = "warning" -> 2
      [] op = "print_file" -> 3
      [] op = "parse" -> 4
      [] op = "write" -> 5
      [] op = "gzip" -> 6

\* C9: the steps of the log are ordered by day and, within a day, as glob,
\* warning, file line, parse, write, gzip; each write follows its parse and
\* is followed by its gzip exactly when --compress is given
C9_DaysInOrderStepsInOrder ==
    BulkOnly =>
        /\ \A i, j \in {k \in 1..Len(log) : log[k].op \in DayOps} :
              i < j =>
                  \/ DateLT(log[i].date, log[j].date)
                  \/ /\ log[i].date = log[j].date
                     /\ StepRank(log[i].op) < StepRank(log[j].op)
        /\ \A i \in At("parse") :
              \E j \in At("glob") : j < i /\ log[j].date = log[i].date
        /\ \A i \in At("write") :
              /\ i > 1
              /\ log[i - 1].op = "parse"
              /\ log[i - 1].name = log[i].src
              /\ log[i - 1].date = log[i].date
              /\ IF args.compress
                 THEN IF i = Len(log) THEN pc = "bulk_gzip"
                      ELSE /\ log[i + 1].op = "gzip"
                           /\ log[i + 1].name = log[i].name
                 ELSE At("gzip") = {}
        /\ pc = "bulk_write" => log[Len(log)].op = "parse"
        /\ pc = "bulk_gzip" => log[Len(log)].op = "write"

\* two days were converted and compressed, one after the other
C9_Witness ==
    /\ BulkOnly
    /\ \E i, j \in At("gzip") :
          i < j /\ log[j].date = AddDay(log[i].date)

(***************************************************************************)
(* C10: for well-formed dates with start <= end and collaborators that     *)
(* return, bulk conversion terminates: every iteration advances the day by *)
(* one, every day of the range is visited, and the completion message is   *)
(* printed once, after the last day, also when no day has an archive.      *)
(***************************************************************************)
\* the days globbed, in order
GlobDays == [k \in 1..Cardinality(At("glob")) |->
                log[CHOOSE i \in At("glob") :
                        Cardinality({j \in At("glob") : j <= i}) = k].date]

AdvancesByOneDay ==
    /\ GlobDays # <<>> => GlobDays[1] = StartDate
    /\ \A k \in 1..(Len(GlobDays) - 1) : GlobDays[k + 1] = AddDay(GlobDays[k])

\* C10, as claimed: the globs advance one day at a time from the start
\* date, and a run without collaborator failures ends normally, having
\* visited every day and printed the completion message once, last
C10_BulkCompletes ==
    (BulkRange /\ NoCollaboratorFailed) =>
        /\ AdvancesByOneDay
        /\ Terminal =>
              /\ pc = "returned"
              /\ At("print_finished") = {Len(log)}
              /\ {log[i].date : i \in At("glob")}
                     = RangeDays(StartDate, EndDate)

\* the same, for ranges that end before the last day of the calendar
C10_CompletesBeforeMaxDate ==
    (BulkRange /\ NoCollaboratorFailed /\ EndDate # Date(9999, 12, 31)) =>
        /\ AdvancesByOneDay
        /\ At("print_finished") \subseteq {Len(log)}
        /\ Terminal =>
              /\ pc = "returned"
              /\ At("print_finished") = {Len(log)}
              /\ {log[i].date : i \in At("glob")}
                     = RangeDays(StartDate, EndDate)

\* a range of three days without any archive has completed
C10_EmptyRangeCompletes ==
    /\ BulkRange
    /\ pc = "returned"
    /\ Cardinality(At("glob")) = 3
    /\ At("parse") = {}

\* the driver is sequential: a run that has not ended takes its next step
FairSpec == Spec /\ WF_vars(Next)

\* every run ends, normally or with an exception
C10_Terminates == <>Terminal

====
